---- MODULE Spec2Model ----
(***************************************************************************)
(* Model of the page alignment engine of parser/page_aligner.py:          *)
(* perceptual-hash distance, the Needleman-Wunsch fill and traceback of   *)
(* align_sequences, and the summary counts of align_chapters.             *)
(***************************************************************************)
EXTENDS Integers, Sequences, FiniteSets, TLC

(* ------------------------------------------------------------------ *)
(* Bounds of the model                                                 *)
(* ------------------------------------------------------------------ *)

\* longest page list given to align_sequences on either side
MaxPages == 3

\* longest page list when the fingerprints are of mixed hash sizes
MaxMixedPages == 2

\* most files in a chapter archive given to prepare_chapter
MaxArchivePages == 2

\* most chapter pairs in the directory given to align_all_chapters
MaxChapters == 3

\* most filenames in the page list of a chapter
MaxChapterPages == 3

\* largest count in an AlignmentResult the batch reads
MaxBatchCount == 1

(* ------------------------------------------------------------------ *)
(* Program constants                                                   *)
(* ------------------------------------------------------------------ *)

\* compute_phash(image_data, hash_size=8): the hash has hash_size^2 bits
HASH_SIZE == 8

DEFAULT_THRESHOLD == 20

\* MAX_RETRIES of downloader.py, the default of retries
MAX_RETRIES == 5

\* DEFAULT_THRESHOLD of prepare_chapter.py
PREPARE_DEFAULT_THRESHOLD == 25

\* the thresholds the model passes: 0, an odd one, and the default
Thresholds == {0, DEFAULT_THRESHOLD - 1, DEFAULT_THRESHOLD}

\* PageMatch.page_a and page_b refer to an element of the argument lists:
\* the model holds the element's position (from 1), and 0 for None
NonePage == 0

\* PageMatch.distance = None
NoneDistance == -1

\* float('inf'), the placeholder of a cell not yet computed
INF == -1

(* ------------------------------------------------------------------ *)
(* Fingerprints: str(phash) is a string of hex digits                  *)
(* ------------------------------------------------------------------ *)

HexLen == (HASH_SIZE * HASH_SIZE) \div 4

\* the hex string of the hash whose first w bits are set
HexOfWeight(w) ==
    [k \in 1..HexLen |->
        IF 4 * k <= w THEN 15
        ELSE IF 4 * (k - 1) >= w THEN 0
        ELSE CASE w - 4 * (k - 1) = 1 -> 8
               [] w - 4 * (k - 1) = 2 -> 12
               [] w - 4 * (k - 1) = 3 -> 14]

\* the fingerprints the model's pages carry: mutual distances 10, 20, 30
Palette == {HexOfWeight(0), HexOfWeight(10), HexOfWeight(30)}

\* imagehash.hex_to_hash expands every hex digit to four bits: the bit of
\* digit d with place value v (8, 4, 2 or 1)
Bit(d, v) == (d \div v) % 2

\* a bit counted only when it is set in the first digit and not in the second
DifferOneWay(d1, d2, v) == IF Bit(d1, v) > Bit(d2, v) THEN 1 ELSE 0

Differ(d1, d2, v) == IF Bit(d1, v) # Bit(d2, v) THEN 1 ELSE 0

\* the number of bits in which the hex digits d1 and d2 differ
DigitDistance(d1, d2) ==
    Differ(d1, d2, 8) + Differ(d1, d2, 4) + Differ(d1, d2, 2) + Differ(d1, d2, 1)

RECURSIVE DistanceFrom(_, _, _)
DistanceFrom(hash1, hash2, k) ==
    IF k > Len(hash1) THEN 0
    ELSE DigitDistance(hash1[k], hash2[k]) + DistanceFrom(hash1, hash2, k + 1)

\* h1 - h2 of the two ImageHash values: the number of differing bits
hash_distance(hash1, hash2) == DistanceFrom(hash1, hash2, 1)

\* h1 - h2 raises TypeError when the two hashes have different shapes, which
\* for the square hashes of compute_phash means hex strings of different length
ShapeMismatch(hash1, hash2) == Len(hash1) # Len(hash2)

\* build_distance_matrix lets the exception of hash_distance through
MatrixRaises(pa, pb) ==
    \E r \in 1..Len(pa), c \in 1..Len(pb) : ShapeMismatch(pa[r].phash, pb[c].phash)

build_distance_matrix(pa, pb) ==
    [r \in 1..Len(pa) |-> [c \in 1..Len(pb) |-> hash_distance(pa[r].phash, pb[c].phash)]]

(* ------------------------------------------------------------------ *)
(* Pages                                                               *)
(* ------------------------------------------------------------------ *)

\* PageInfo(index, filename, phash, width, height): index is the position
\* (from 0) in the chapter, phash the fingerprint
PageInfo(idx, fp) == [index |-> idx, phash |-> fp]

\* what analyze_chapter returns for a chapter whose pages have the hashes hs
PagesOf(hs) == [k \in 1..Len(hs) |-> PageInfo(k - 1, hs[k])]

HashSeqs == UNION {[1..len -> Palette] : len \in 0..MaxPages}

\* the two page fields filled the other way round
PageMatchSwapped(pa, pb, d, ty) == [page_a |-> pb, page_b |-> pa, distance |-> d, match_type |-> ty]

PageMatch(pa, pb, d, ty) == [page_a |-> pa, page_b |-> pb, distance |-> d, match_type |-> ty]

VARIABLES
    pc,         \* where align_sequences stands: idle, fill, trace, reverse, done,
                \* or raised when it ended in an exception
    pages_a,    \* argument pages_a
    pages_b,    \* argument pages_b
    threshold,  \* argument threshold
    dist,       \* the distance matrix
    dp,         \* the cost table, dp[i][j] for i in 0..n, j in 0..m
    fi, fj,     \* the cell the fill loops stand at
    i, j,       \* the cell the traceback stands at
    matches,    \* the list of PageMatch built so far / returned
    prev,       \* summary of the previous call on the same chapters (<<>> if none)
    zip_a,      \* the first chapter archive: its entries (name, data) in namelist order
    zip_b,      \* the second chapter archive
    result,     \* the AlignmentResult of align_chapters (<<>> before it returns)
    aligned_pages,  \* the AlignedPage list of align_and_prepare
    out_en,     \* the entries written to the aligned archive of the first side
    out_es,     \* the entries written to the aligned archive of the second side
    manifest,   \* the alignment manifest (<<>> before it is made)
    batch,      \* the run of align_all_chapters (<<>> when none runs)
    download,   \* the call of download_file (<<>> when none runs)
    chapter     \* the call of download_chapter_to_zip (<<>> when none runs)

\* what prepare_chapter.py reads and writes around align_sequences
io == <<zip_a, zip_b, result, aligned_pages, out_en, out_es, manifest>>

\* the state of the batch aligner and of the downloader
tools == <<batch, download, chapter>>

vars == <<pc, pages_a, pages_b, threshold, dist, dp, fi, fj, i, j, matches, prev, io, tools>>

\* a gap penalty of the bare threshold
GapPenaltyBare(t) == t

\* GAP_PENALTY = threshold + 5
GapPenaltyOf(t) == t + 5

GAP_PENALTY == GapPenaltyOf(threshold)

\* min(x, y) and x + c where x may be the placeholder INF
Min2(x, y) == IF x = INF THEN y ELSE IF y = INF THEN x ELSE IF x <= y THEN x ELSE y

Plus(x, c) == IF x = INF THEN INF ELSE x + c

\* the list left in traceback order
ReverseOmitted(s) == s

Reverse(s) == [k \in 1..Len(s) |-> s[Len(s) + 1 - k]]

(* ------------------------------------------------------------------ *)
(* align_sequences                                                     *)
(* ------------------------------------------------------------------ *)

\* a table whose borders cost nothing
InitialTableFreeBorders(n, m, t) ==
    [r \in 0..n |-> [c \in 0..m |-> IF r = 0 \/ c = 0 THEN 0 ELSE INF]]

\* dp = [[INF] * (m + 1) ...]; dp[0][0] = 0; dp[i][0] = i * GAP_PENALTY;
\* dp[0][j] = j * GAP_PENALTY
InitialTable(n, m, t) ==
    [r \in 0..n |-> [c \in 0..m |->
        IF r = 0 THEN c * GapPenaltyOf(t)
        ELSE IF c = 0 THEN r * GapPenaltyOf(t)
        ELSE INF]]

\* the B pages given as pages of A
AllInsertBAsA(B) == [k \in 1..Len(B) |-> PageMatch(k, NonePage, NoneDistance, "insert_a")]

\* [PageMatch(None, pb, None, "insert_b") for pb in pages_b]
AllInsertB(B) == [k \in 1..Len(B) |-> PageMatch(NonePage, k, NoneDistance, "insert_b")]

\* [PageMatch(pa, None, None, "insert_a") for pa in pages_a]
AllInsertA(A) == [k \in 1..Len(A) |-> PageMatch(k, NonePage, NoneDistance, "insert_a")]

\* the exception caught inside and an empty list returned
MismatchSwallowed == "done"

\* dist = build_distance_matrix(...) stands in no try block: an exception
\* of it ends align_sequences and goes to the caller
MismatchOutcome == "raised"

\* the body of align_sequences up to the fill loops: the early returns for
\* an empty side, else the distance matrix (or the exception it ends in) and
\* the table's borders
Begin(A, B, t) ==
    LET n == Len(A)
        m == Len(B)
    IN  /\ pages_a' = A
        /\ pages_b' = B
        /\ threshold' = t
        /\ fi' = 1
        /\ fj' = 1
        /\ i' = 0
        /\ j' = 0
        /\ IF n = 0 /\ m = 0
              THEN /\ matches' = <<>>
                   /\ pc' = "done"
                   /\ dist' = <<>>
                   /\ dp' = <<>>
           ELSE IF n = 0
              THEN /\ matches' = AllInsertB(B)
                   /\ pc' = "done"
                   /\ dist' = <<>>
                   /\ dp' = <<>>
           ELSE IF m = 0
              THEN /\ matches' = AllInsertA(A)
                   /\ pc' = "done"
                   /\ dist' = <<>>
                   /\ dp' = <<>>
           ELSE IF MatrixRaises(A, B)
              THEN /\ matches' = <<>>
                   /\ pc' = MismatchOutcome
                   /\ dist' = <<>>
                   /\ dp' = <<>>
           ELSE    /\ matches' = <<>>
                   /\ pc' = "fill"
                   /\ dist' = build_distance_matrix(A, B)
                   /\ dp' = InitialTable(n, m, t)

\* the call align_sequences(pages_a, pages_b, threshold)
Enter ==
    /\ pc = "idle"
    /\ Begin(pages_a, pages_b, threshold)
    /\ prev' = prev
    /\ UNCHANGED <<io, tools>>

\* a fill that never considers a gap in A (option 3)
CellValueNoInsertB(r, c) ==
    LET match_cost == dist[r][c]
        v1 == IF match_cost <= threshold
                 THEN Min2(dp[r][c], Plus(dp[r - 1][c - 1], match_cost))
                 ELSE Min2(dp[r][c], Plus(dp[r - 1][c - 1], GAP_PENALTY * 2))
    IN  Min2(v1, Plus(dp[r - 1][c], GAP_PENALTY))

\* the value the fill stores in dp[r][c]
CellValue(r, c) ==
    LET match_cost == dist[r][c]
        v1 == IF match_cost <= threshold
                 THEN Min2(dp[r][c], Plus(dp[r - 1][c - 1], match_cost))
                 ELSE Min2(dp[r][c], Plus(dp[r - 1][c - 1], GAP_PENALTY * 2))
        v2 == Min2(v1, Plus(dp[r - 1][c], GAP_PENALTY))
    IN  Min2(v2, Plus(dp[r][c - 1], GAP_PENALTY))

\* one iteration of the inner fill loop
Fill ==
    /\ pc = "fill"
    /\ dp' = [dp EXCEPT ![fi][fj] = CellValue(fi, fj)]
    /\ IF fj < Len(pages_b)
          THEN /\ fj' = fj + 1
               /\ UNCHANGED <<fi, pc, i, j>>
       ELSE IF fi < Len(pages_a)
          THEN /\ fi' = fi + 1
               /\ fj' = 1
               /\ UNCHANGED <<pc, i, j>>
       ELSE    /\ pc' = "trace"
               /\ i' = Len(pages_a)
               /\ j' = Len(pages_b)
               /\ UNCHANGED <<fi, fj>>
    /\ UNCHANGED <<pages_a, pages_b, threshold, dist, matches, prev, io, tools>>

\* the stored minimum compared without looking at the threshold
came_from_match_any == dp[i][j] = Plus(dp[i - 1][j - 1], dist[i][j])

\* the match branch taken only when no gap step attains the stored minimum
came_from_match_untied ==
    /\ dist[i][j] <= threshold
    /\ dp[i][j] = Plus(dp[i - 1][j - 1], dist[i][j])
    /\ dp[i][j] # Plus(dp[i - 1][j], GAP_PENALTY)
    /\ dp[i][j] # Plus(dp[i][j - 1], GAP_PENALTY)

came_from_match ==
    /\ dist[i][j] <= threshold
    /\ dp[i][j] = Plus(dp[i - 1][j - 1], dist[i][j])

\* the bad-match branch compared against one gap penalty
came_from_bad_match_one_gap ==
    /\ dist[i][j] > threshold
    /\ dp[i][j] = Plus(dp[i - 1][j - 1], GAP_PENALTY)

came_from_bad_match ==
    /\ dist[i][j] > threshold
    /\ dp[i][j] = Plus(dp[i - 1][j - 1], GAP_PENALTY * 2)

\* the comparison with threshold // 2 turned around
MatchTypeInverted(match_cost, t) == IF match_cost >= t \div 2 THEN "match" ELSE "weak_match"

\* the threshold halved rounding up
MatchTypeCeil(match_cost, t) == IF match_cost <= (t + 1) \div 2 THEN "match" ELSE "weak_match"

\* a strict comparison with threshold // 2
MatchTypeStrict(match_cost, t) == IF match_cost < t \div 2 THEN "match" ELSE "weak_match"

\* "match" if match_cost <= threshold // 2 else "weak_match"
MatchType(match_cost, t) == IF match_cost <= t \div 2 THEN "match" ELSE "weak_match"

\* the bad-match branch appending the page of A alone
BadMatchEntriesOnlyA(r, c) == << PageMatch(r, NonePage, NoneDistance, "insert_a") >>

\* the bad-match branch appending the page of B first
BadMatchEntriesBFirst(r, c) ==
    << PageMatch(NonePage, c, NoneDistance, "insert_b"),
       PageMatch(r, NonePage, NoneDistance, "insert_a") >>

\* the two appends of the bad-match branch: insert_a of pages_a[i-1], then
\* insert_b of pages_b[j-1]
BadMatchEntries(r, c) ==
    << PageMatch(r, NonePage, NoneDistance, "insert_a"),
       PageMatch(NonePage, c, NoneDistance, "insert_b") >>

\* one iteration of the traceback loop
Trace ==
    /\ pc = "trace"
    /\ i > 0 \/ j > 0
    /\ IF i > 0 /\ j > 0 /\ came_from_match
          THEN /\ matches' = Append(matches,
                      PageMatch(i, j, dist[i][j], MatchType(dist[i][j], threshold)))
               /\ i' = i - 1
               /\ j' = j - 1
               /\ pc' = pc
       ELSE IF i > 0 /\ j > 0 /\ came_from_bad_match
          THEN /\ matches' = matches \o BadMatchEntries(i, j)
               /\ i' = i - 1
               /\ j' = j - 1
               /\ pc' = pc
       ELSE IF i > 0 /\ dp[i][j] = Plus(dp[i - 1][j], GAP_PENALTY)
          THEN /\ matches' = Append(matches, PageMatch(i, NonePage, NoneDistance, "insert_a"))
               /\ i' = i - 1
               /\ j' = j
               /\ pc' = pc
       ELSE IF j > 0
          THEN /\ matches' = Append(matches, PageMatch(NonePage, j, NoneDistance, "insert_b"))
               /\ i' = i
               /\ j' = j - 1
               /\ pc' = pc
       ELSE    /\ pc' = "reverse"
               /\ UNCHANGED <<matches, i, j>>
    /\ UNCHANGED <<pages_a, pages_b, threshold, dist, dp, fi, fj, prev, io, tools>>

\* the loop is left (its condition fails, or break): matches.reverse(); return
Return ==
    /\ \/ pc = "trace" /\ ~(i > 0 \/ j > 0)
       \/ pc = "reverse"
    /\ matches' = Reverse(matches)
    /\ pc' = "done"
    /\ UNCHANGED <<pages_a, pages_b, threshold, dist, dp, fi, fj, i, j, prev, io, tools>>

(* ------------------------------------------------------------------ *)
(* align_chapters: the summary counts                                  *)
(* ------------------------------------------------------------------ *)

CountType(ms, ty) == Cardinality({k \in 1..Len(ms) : ms[k].match_type = ty})

\* the weak matches counted as matches too
matched_count_with_weak(ms) == CountType(ms, "match") + CountType(ms, "weak_match")

matched_count(ms) == CountType(ms, "match")

\* every entry with a page of A counted as an insertion
insert_a_count_any_a(ms) == Cardinality({k \in 1..Len(ms) : ms[k].page_a # NonePage})

insert_a_count(ms) == CountType(ms, "insert_a")

insert_b_count(ms) == CountType(ms, "insert_b")

\* the same two chapters aligned again with a threshold at least as large
\* (page_aligner.py --threshold): the summary of the finished call is kept
Rerun ==
    /\ pc = "done"
    /\ \E t2 \in Thresholds :
          /\ t2 >= threshold
          /\ Begin(pages_a, pages_b, t2)
    /\ prev' = << [threshold |-> threshold,
                   matched |-> matched_count(matches),
                   insert_a |-> insert_a_count(matches),
                   insert_b |-> insert_b_count(matches)] >>
    /\ UNCHANGED <<io, tools>>

(* ------------------------------------------------------------------ *)
(* Specifications                                                      *)
(* ------------------------------------------------------------------ *)

\* s with the element x inserted so that it stands at position p
InsertAt(s, p, x) == SubSeq(s, 1, p - 1) \o <<x>> \o SubSeq(s, p, Len(s))

\* the state before the call, but for the arguments
Idle ==
    /\ pc = "idle"
    /\ dist = <<>>
    /\ dp = <<>>
    /\ fi = 0
    /\ fj = 0
    /\ i = 0
    /\ j = 0
    /\ matches = <<>>
    /\ prev = <<>>
    /\ result = <<>>
    /\ aligned_pages = <<>>
    /\ out_en = <<>>
    /\ out_es = <<>>
    /\ manifest = <<>>

\* neither the batch aligner nor the downloader runs
NoTools ==
    /\ batch = <<>>
    /\ download = <<>>
    /\ chapter = <<>>

\* align_sequences called on page lists, no archive involved
NoArchives ==
    /\ zip_a = <<>>
    /\ zip_b = <<>>

\* any two chapters of at most MaxPages pages and any threshold
Init ==
    /\ NoArchives
    /\ \E ha \in HashSeqs, hb \in HashSeqs :
          /\ pages_a = PagesOf(ha)
          /\ pages_b = PagesOf(hb)
    /\ threshold \in Thresholds
    /\ Idle
    /\ NoTools

Next == Enter \/ Fill \/ Trace \/ Return

Spec == Init /\ [][Next]_vars

\* chapter B is chapter A with one extra page, aligned under rising thresholds
InitSweep ==
    /\ NoArchives
    /\ \E ha \in HashSeqs, x \in Palette :
          /\ Len(ha) < MaxPages
          /\ \E p \in 1..(Len(ha) + 1) :
                /\ pages_a = PagesOf(ha)
                /\ pages_b = PagesOf(InsertAt(ha, p, x))
    /\ threshold \in Thresholds
    /\ Idle
    /\ NoTools

NextSweep == Enter \/ Fill \/ Trace \/ Return \/ Rerun

SpecSweep == InitSweep /\ [][NextSweep]_vars

(* ------------------------------------------------------------------ *)
(* Archives: extract_pages and analyze_chapter                         *)
(* ------------------------------------------------------------------ *)

\* A file name is the sequence of its characters' codes.
\* "1.jpg", "2.PNG", "3.gif" and "0.txt"
NamePool ==
    { <<49, 46, 106, 112, 103>>, <<50, 46, 80, 78, 71>>,
      <<51, 46, 103, 105, 102>>, <<48, 46, 116, 120, 116>> }

\* ".jpg", ".jpeg", ".png", ".webp", ".gif"
image_extensions ==
    { <<46, 106, 112, 103>>, <<46, 106, 112, 101, 103>>, <<46, 112, 110, 103>>,
      <<46, 119, 101, 98, 112>>, <<46, 103, 105, 102>> }

\* str.lower() on one character
LowerChar(c) == IF c \in 65..90 THEN c + 32 ELSE c

Lower(str) == [k \in 1..Len(str) |-> LowerChar(str[k])]

\* Path(name).suffix: from the last dot on, unless the name has no dot, starts
\* with its only dot or ends with the dot
Suffix(name) ==
    LET dots == {k \in 1..Len(name) : name[k] = 46}
        last == CHOOSE k \in dots : \A d \in dots : d <= k
    IN  IF dots = {} THEN <<>>
        ELSE IF last = 1 \/ last = Len(name) THEN <<>>
        ELSE SubSeq(name, last, Len(name))

\* s < t for two strings, as Python compares them
RECURSIVE StrLess(_, _)
StrLess(str1, str2) ==
    IF str2 = <<>> THEN FALSE
    ELSE IF str1 = <<>> THEN TRUE
    ELSE IF Head(str1) # Head(str2) THEN Head(str1) < Head(str2)
    ELSE StrLess(Tail(str1), Tail(str2))

\* the names read in the order of the archive
UnsortedEntries(zip) == zip

\* sorted(zf.namelist()) for an archive of distinct names: the entries by
\* increasing name
SortedEntries(zip) ==
    LET rank(k) == 1 + Cardinality({q \in 1..Len(zip) : StrLess(zip[q].name, zip[k].name)})
    IN  [p \in 1..Len(zip) |-> zip[CHOOSE k \in 1..Len(zip) : rank(k) = p]]

IsPage(entry) == Lower(Suffix(entry.name)) \in image_extensions

\* extract_pages: the (name, data) of the image files, sorted by name
extract_pages(zip) == SelectSeq(SortedEntries(zip), IsPage)

\* Image data is a number; the data 0 is no image that can be opened
CorruptImage == 0

\* compute_phash raises on data that is no image
PhashFails(data) == data = CorruptImage

\* str(phash) of the image: images 1 and 2 are 10 bits apart, images 2 and 3
\* are 20 bits apart, images 1 and 3 are 30 bits apart
compute_phash(data) ==
    CASE data = 1 -> HexOfWeight(0)
      [] data = 2 -> HexOfWeight(10)
      [] data = 3 -> HexOfWeight(30)

\* PageInfo with the file name the remapper reads
NamedPage(idx, name, fp) == [index |-> idx, filename |-> name, phash |-> fp]

\* analyze_chapter: one PageInfo per page whose fingerprint could be taken,
\* index being the place (from 0) among all the pages of the chapter
RECURSIVE AnalyzeFrom(_, _)
AnalyzeFrom(pages, k) ==
    IF k > Len(pages) THEN <<>>
    ELSE (IF PhashFails(pages[k].data) THEN <<>>
          ELSE << NamedPage(k - 1, pages[k].name, compute_phash(pages[k].data)) >>)
         \o AnalyzeFrom(pages, k + 1)

\* the first failure ending the whole loop
AnalyzeUntilFailure(zip) ==
    LET pages == extract_pages(zip)
        bad == {k \in 1..Len(pages) : PhashFails(pages[k].data)}
        stop == IF bad = {} THEN Len(pages) + 1 ELSE CHOOSE k \in bad : \A q \in bad : k <= q
    IN  AnalyzeFrom(SubSeq(pages, 1, stop - 1), 1)

analyze_chapter(zip) == AnalyzeFrom(extract_pages(zip), 1)

\* align_chapters, up to the call of align_sequences: both chapters analysed
Analyze ==
    /\ pc = "start"
    /\ pages_a' = analyze_chapter(zip_a)
    /\ pages_b' = analyze_chapter(zip_b)
    /\ pc' = "idle"
    /\ UNCHANGED <<threshold, dist, dp, fi, fj, i, j, matches, prev, io, tools>>

\* sum(distances) / len(distances) if distances else 0, kept as a fraction
AvgDistance(ms) ==
    LET withd == SelectSeq(ms, LAMBDA e : e.distance # NoneDistance)
        RECURSIVE total(_)
        total(k) == IF k > Len(withd) THEN 0 ELSE withd[k].distance + total(k + 1)
    IN  IF Len(withd) = 0 THEN [num |-> 0, den |-> 1]
        ELSE [num |-> total(1), den |-> Len(withd)]

\* align_chapters after align_sequences returned: the AlignmentResult
Summarize ==
    /\ pc = "done"
    /\ result' = << [pages_a |-> Len(pages_a),
                     pages_b |-> Len(pages_b),
                     matched_count |-> matched_count(matches),
                     insert_a_count |-> insert_a_count(matches),
                     insert_b_count |-> insert_b_count(matches),
                     avg_distance |-> AvgDistance(matches)] >>
    /\ pc' = "aligned"
    /\ UNCHANGED <<pages_a, pages_b, threshold, dist, dp, fi, fj, i, j, matches, prev, tools,
                   zip_a, zip_b, aligned_pages, out_en, out_es, manifest>>

(* ------------------------------------------------------------------ *)
(* prepare_chapter: the remapped archives and the manifest             *)
(* ------------------------------------------------------------------ *)

\* None for a source file name
NoneName == <<>>

\* the pages numbered from 0
AlignedPageFromZero(idx, en, es, ty, d) ==
    [index |-> idx - 1, en_source |-> en, es_source |-> es, match_type |-> ty, distance |-> d]

AlignedPage(idx, en, es, ty, d) ==
    [index |-> idx, en_source |-> en, es_source |-> es, match_type |-> ty, distance |-> d]

\* the AlignedPage with the match_type of the entry kept for a paired entry
AlignedPageOfKeepingOutcome(e, k) ==
    CASE e.match_type \in {"match", "weak_match"} ->
            AlignedPage(k, pages_a[e.page_a].filename, pages_b[e.page_b].filename,
                        IF e.match_type = "match" THEN "matched" ELSE "weak_matched",
                        e.distance)
      [] e.match_type = "insert_a" ->
            AlignedPage(k, pages_a[e.page_a].filename, NoneName, "en_only", NoneDistance)
      [] e.match_type = "insert_b" ->
            AlignedPage(k, NoneName, pages_b[e.page_b].filename, "es_only", NoneDistance)

\* the AlignedPage align_and_prepare appends for the k-th entry of the result
AlignedPageOf(e, k) ==
    CASE e.match_type \in {"match", "weak_match"} ->
            AlignedPage(k,
                        IF e.page_a # NonePage THEN pages_a[e.page_a].filename ELSE NoneName,
                        IF e.page_b # NonePage THEN pages_b[e.page_b].filename ELSE NoneName,
                        "matched", e.distance)
      [] e.match_type = "insert_a" ->
            AlignedPage(k, pages_a[e.page_a].filename, NoneName, "en_only", NoneDistance)
      [] e.match_type = "insert_b" ->
            AlignedPage(k, NoneName, pages_b[e.page_b].filename, "es_only", NoneDistance)

\* align_and_prepare after align_chapters returned: every entry has one of the
\* four types, so page_idx runs with the place in the list
AlignAndPrepare ==
    /\ pc = "aligned"
    /\ aligned_pages' = [k \in 1..Len(matches) |-> AlignedPageOf(matches[k], k)]
    /\ pc' = "prepared"
    /\ UNCHANGED <<pages_a, pages_b, threshold, dist, dp, fi, fj, i, j, matches, prev, tools,
                   zip_a, zip_b, result, out_en, out_es, manifest>>

\* the extensions create_aligned_zip reads from the source archive:
\* ".jpg", ".jpeg", ".png", ".webp"
source_extensions ==
    { <<46, 106, 112, 103>>, <<46, 106, 112, 101, 103>>, <<46, 112, 110, 103>>,
      <<46, 119, 101, 98, 112>> }

\* the keys of source_images
SourceNames(zip) ==
    { zip[k].name : k \in {q \in 1..Len(zip) : Lower(Suffix(zip[q].name)) \in source_extensions} }

\* zf.read(name)
ReadFile(zip, name) == zip[CHOOSE k \in 1..Len(zip) : zip[k].name = name].data

\* the extension taken from the name as it is written
get_image_extension_as_written(filename) == Suffix(filename)

get_image_extension(filename) == Lower(Suffix(filename))

\* f"{index:03d}" for an index below 1000
Pad3(n) == << 48 + (n \div 100), 48 + ((n \div 10) % 10), 48 + (n % 10) >>

\* getattr(page, source_field), source_field chosen by lang
SourceOf(page, lang) == IF lang = "en" THEN page.en_source ELSE page.es_source

\* the files create_aligned_zip writes, in the order written
create_aligned_zip(zip, pages, lang) ==
    LET written == SelectSeq(pages, LAMBDA p : SourceOf(p, lang) # NoneName
                                                 /\ SourceOf(p, lang) \in SourceNames(zip))
    IN  [k \in 1..Len(written) |->
            [name |-> Pad3(written[k].index) \o get_image_extension(SourceOf(written[k], lang)),
             data |-> ReadFile(zip, SourceOf(written[k], lang))]]

CreateZipEn ==
    /\ pc = "prepared"
    /\ out_en' = create_aligned_zip(zip_a, aligned_pages, "en")
    /\ pc' = "en_written"
    /\ UNCHANGED <<pages_a, pages_b, threshold, dist, dp, fi, fj, i, j, matches, prev, tools,
                   zip_a, zip_b, result, aligned_pages, out_es, manifest>>

CreateZipEs ==
    /\ pc = "en_written"
    /\ out_es' = create_aligned_zip(zip_b, aligned_pages, "es")
    /\ pc' = "es_written"
    /\ UNCHANGED <<pages_a, pages_b, threshold, dist, dp, fi, fj, i, j, matches, prev, tools,
                   zip_a, zip_b, result, aligned_pages, out_en, manifest>>

CountPages(pages, ty) == Cardinality({k \in 1..Len(pages) : pages[k].match_type = ty})

\* the two source names written under each other's key
ManifestRecordSwapped(p) ==
    [index |-> p.index, en |-> p.es_source, es |-> p.en_source,
     type |-> p.match_type, distance |-> p.distance]

ManifestRecord(p) ==
    [index |-> p.index, en |-> p.en_source, es |-> p.es_source,
     type |-> p.match_type, distance |-> p.distance]

\* the dict of create_alignment_manifest, without the chapter number
create_alignment_manifest(pages, res) ==
    [total_pages |-> Len(pages),
     matched |-> CountPages(pages, "matched"),
     en_only |-> CountPages(pages, "en_only"),
     es_only |-> CountPages(pages, "es_only"),
     avg_distance |-> res.avg_distance,
     pages |-> [k \in 1..Len(pages) |-> ManifestRecord(pages[k])]]

CreateManifest ==
    /\ pc = "es_written"
    /\ manifest' = << create_alignment_manifest(aligned_pages, result[1]) >>
    /\ pc' = "finished"
    /\ UNCHANGED <<pages_a, pages_b, threshold, dist, dp, fi, fj, i, j, matches, prev, tools,
                   zip_a, zip_b, result, aligned_pages, out_en, out_es>>

\* "0.txt", a file that is no page
TextName == <<48, 46, 116, 120, 116>>

\* the files with an image name and data of images
ImageFiles(images) == [name : NamePool \ {TextName}, data : images]

TextFile == [name |-> TextName, data |-> CorruptImage]

\* the archives of at most len of the files, no two with the same name
Archives(files, len) ==
    UNION { {z \in [1..n -> files] :
                \A p \in 1..n, q \in 1..n : p # q => z[p].name # z[q].name}
            : n \in 0..len }

InNameOrder(zip) == \A p \in 1..Len(zip), q \in 1..Len(zip) : p < q => StrLess(zip[p].name, zip[q].name)

\* prepare_chapter on two archives: the first in any file order, with
\* unreadable images and a file that is no page, the second in name order
\* with readable images
InitPrepare ==
    /\ zip_a \in Archives(ImageFiles(0..3) \cup {TextFile}, MaxArchivePages)
    /\ zip_b \in {z \in Archives(ImageFiles(1..3), MaxArchivePages) : InNameOrder(z)}
    /\ pages_a = <<>>
    /\ pages_b = <<>>
    /\ threshold = PREPARE_DEFAULT_THRESHOLD
    /\ pc = "start"
    /\ dist = <<>>
    /\ dp = <<>>
    /\ fi = 0
    /\ fj = 0
    /\ i = 0
    /\ j = 0
    /\ matches = <<>>
    /\ prev = <<>>
    /\ result = <<>>
    /\ aligned_pages = <<>>
    /\ out_en = <<>>
    /\ out_es = <<>>
    /\ manifest = <<>>
    /\ NoTools

NextPrepare ==
    \/ Analyze
    \/ Enter
    \/ Fill
    \/ Trace
    \/ Return
    \/ Summarize
    \/ AlignAndPrepare
    \/ CreateZipEn
    \/ CreateZipEs
    \/ CreateManifest

SpecPrepare == InitPrepare /\ [][NextPrepare]_vars

(* ------------------------------------------------------------------ *)
(* align_chapters.py: align_all_chapters                               *)
(* ------------------------------------------------------------------ *)

\* what align_chapters does for one chapter pair: it raises, or it returns
\* an AlignmentResult, of which the batch reads the three counts
AlignRaises == [raises |-> TRUE]

AlignResults ==
    [raises : {FALSE}, matched_count : {MaxBatchCount}, insert_a_count : 0..MaxBatchCount,
     insert_b_count : 0..MaxBatchCount]

\* one chapter pair of find_chapter_pairs with what happens to it: the
\* outcome of align_chapters and whether writing chapter_<n>.json raises
ChapterPairs(output_dir) ==
    [align : {AlignRaises}, save_raises : {FALSE}]
        \cup [align : AlignResults, save_raises : IF output_dir THEN BOOLEAN ELSE {FALSE}]

\* summary["chapters"].append({...}) of a chapter aligned without exception
ChapterRecord(ch_num, res) ==
    [chapter |-> ch_num,
     matched |-> res.matched_count,
     only_en |-> res.insert_a_count,
     only_es |-> res.insert_b_count,
     status |-> IF res.insert_a_count = 0 /\ res.insert_b_count = 0 THEN "PERFECT" ELSE "DIFF"]

\* summary["chapters"].append({"chapter": ch_num, "error": str(e)})
ErrorRecord(ch_num) == [chapter |-> ch_num, error |-> TRUE]

\* align_all_chapters is called on a directory with some chapter pairs
InitBatch ==
    /\ NoArchives
    /\ pages_a = <<>>
    /\ pages_b = <<>>
    /\ threshold = DEFAULT_THRESHOLD
    /\ Idle
    /\ download = <<>>
    /\ chapter = <<>>
    /\ \E output_dir \in BOOLEAN, n \in 0..MaxChapters :
          \E pairs \in [1..n -> ChapterPairs(output_dir)] :
              batch = [pc |-> "start", output_dir |-> output_dir, pairs |-> pairs,
                       k |-> 1, summary |-> <<>>, files |-> {}]

\* align_all_chapters up to the loop: {} for no pair, else the empty summary
BatchBegin ==
    /\ batch # <<>>
    /\ batch.pc = "start"
    /\ IF batch.pairs = <<>>
          THEN batch' = [batch EXCEPT !.pc = "returned"]
          ELSE batch' = [batch EXCEPT !.pc = "loop",
                             !.summary = << [total_chapters |-> Len(batch.pairs),
                                             perfect_matches |-> 0,
                                             has_insertions |-> 0,
                                             chapters |-> <<>>] >>]
    /\ UNCHANGED <<pc, pages_a, pages_b, threshold, dist, dp, fi, fj, i, j, matches, prev,
                   io, download, chapter>>

\* the summary after the try block of one chapter ran to its end or to the
\* exception: the counter and the record come before the file is written
AfterChapter(sm, ch_num, pair) ==
    IF pair.align.raises
       THEN [sm EXCEPT !.chapters = Append(@, ErrorRecord(ch_num))]
       ELSE LET res == pair.align
                perfect == res.insert_a_count = 0 /\ res.insert_b_count = 0
                counted == IF perfect
                              THEN [sm EXCEPT !.perfect_matches = @ + 1]
                              ELSE [sm EXCEPT !.has_insertions = @ + 1]
                recorded == [counted EXCEPT !.chapters = Append(@, ChapterRecord(ch_num, res))]
            IN  IF pair.save_raises
                   THEN [recorded EXCEPT !.chapters = Append(@, ErrorRecord(ch_num))]
                   ELSE recorded

\* one iteration of the loop over the pairs
BatchChapter ==
    /\ batch # <<>>
    /\ batch.pc = "loop"
    /\ batch.k <= Len(batch.pairs)
    /\ LET pair == batch.pairs[batch.k]
           saved == batch.output_dir /\ ~pair.align.raises /\ ~pair.save_raises
       IN  batch' = [batch EXCEPT
                        !.summary = << AfterChapter(batch.summary[1], batch.k, pair) >>,
                        !.files = IF saved THEN @ \cup {batch.k} ELSE @,
                        !.k = @ + 1]
    /\ UNCHANGED <<pc, pages_a, pages_b, threshold, dist, dp, fi, fj, i, j, matches, prev,
                   io, download, chapter>>

\* after the loop: summary.json is written if asked for, which may raise
\* (no try block around it), else the summary is returned
BatchReturn ==
    /\ batch # <<>>
    /\ batch.pc = "loop"
    /\ batch.k > Len(batch.pairs)
    /\ \E write_raises \in (IF batch.output_dir THEN BOOLEAN ELSE {FALSE}) :
          batch' = [batch EXCEPT !.pc = IF write_raises THEN "raised" ELSE "returned"]
    /\ UNCHANGED <<pc, pages_a, pages_b, threshold, dist, dp, fi, fj, i, j, matches, prev,
                   io, download, chapter>>

NextBatch == BatchBegin \/ BatchChapter \/ BatchReturn

SpecBatch == InitBatch /\ [][NextBatch]_vars

(* ------------------------------------------------------------------ *)
(* downloader.py: download_file                                        *)
(* ------------------------------------------------------------------ *)

\* what one session.get of download_file ends in: a status 429, 503, another
\* status that is not 200 (404), a timeout, another exception, or a status
\* 200 whose body is read and written, whose read raises, whose write raises
Answers == {"429", "503", "404", "timeout", "error", "200", "read_error", "write_error"}

\* the loop going one attempt too far
AttemptsLeftInclusive(d) == d.attempt <= d.retries

\* for attempt in range(retries): another attempt is due
AttemptsLeft(d) == d.attempt < d.retries

\* download_file is called with some number of retries; dest may hold an
\* older file
InitDownload ==
    /\ NoArchives
    /\ pages_a = <<>>
    /\ pages_b = <<>>
    /\ threshold = DEFAULT_THRESHOLD
    /\ Idle
    /\ batch = <<>>
    /\ chapter = <<>>
    /\ \E retries \in 0..MAX_RETRIES, dest \in {"absent", "old"} :
          download = [retries |-> retries, attempt |-> 0, answers |-> <<>>,
                      dest |-> dest, returned |-> "none"]

\* one iteration of the loop of download_file: one request and what follows
\* from its answer
DownloadAttempt ==
    /\ download # <<>>
    /\ download.returned = "none"
    /\ AttemptsLeft(download)
    /\ \E answer \in Answers :
          download' = [download EXCEPT
              !.answers = Append(@, answer),
              !.attempt = @ + 1,
              !.dest = CASE answer = "200" -> "body"
                         [] answer = "write_error" -> "partial"
                         [] OTHER -> @,
              !.returned = CASE answer = "200" -> "True"
                             [] answer = "404" /\ ~(download.attempt < download.retries - 1) -> "False"
                             [] OTHER -> @]
    /\ UNCHANGED <<pc, pages_a, pages_b, threshold, dist, dp, fi, fj, i, j, matches, prev,
                   io, batch, chapter>>

\* the loop ran out: return False
DownloadExhausted ==
    /\ download # <<>>
    /\ download.returned = "none"
    /\ ~AttemptsLeft(download)
    /\ download' = [download EXCEPT !.returned = "False"]
    /\ UNCHANGED <<pc, pages_a, pages_b, threshold, dist, dp, fi, fj, i, j, matches, prev,
                   io, batch, chapter>>

NextDownload == DownloadAttempt \/ DownloadExhausted

SpecDownload == InitDownload /\ [][NextDownload]_vars

(* ------------------------------------------------------------------ *)
(* downloader.py: download_chapter_to_zip                              *)
(* ------------------------------------------------------------------ *)

\* ".jpg" and ".png"
DotJpg == <<46, 106, 112, 103>>
DotPng == <<46, 112, 110, 103>>

\* Path(filename).suffix of the filenames of a page list: none, or ".png"
FilenameSuffixes == {<<>>, DotPng}

\* ext = Path(filename).suffix or ".jpg"; the name is f"{idx:03d}{ext}"
PageFileName(idx, suffix) == Pad3(idx) \o (IF suffix = <<>> THEN DotJpg ELSE suffix)

\* what get_chapter_pages ends in: a page list, None for a status that is
\* not 200, or an exception of the request or of the decoding of its answer
PageLists ==
    {[kind |-> "pages", filenames |-> f] :
        f \in UNION {[1..n -> FilenameSuffixes] : n \in 0..MaxChapterPages}}
    \cup {[kind |-> "None", filenames |-> <<>>], [kind |-> "raises", filenames |-> <<>>]}

\* what download_file ends in: True with the file written, False with no
\* file, False with a file left behind by a write that raised
DownloadResults == {"True", "False", "False_partial"}

\* the ZIP written from downloaded_files: sorted(downloaded_files), each
\* under its name
ZipOf(downloaded_files) ==
    SortedEntries([k \in 1..Len(downloaded_files) |->
                      [name |-> downloaded_files[k], data |-> downloaded_files[k]]])

\* a call of download_chapter_to_zip: the ZIP may exist already, and the temp
\* directory of the chapter may hold page files of an earlier run
InitChapter ==
    /\ NoArchives
    /\ pages_a = <<>>
    /\ pages_b = <<>>
    /\ threshold = DEFAULT_THRESHOLD
    /\ Idle
    /\ batch = <<>>
    /\ download = <<>>
    /\ \E zip \in {[state |-> "absent", entries |-> <<>>], [state |-> "old", entries |-> <<>>]},
          temp \in SUBSET {PageFileName(k, <<>>) : k \in 1..MaxChapterPages} :
          chapter = [pc |-> "start", zip |-> zip, temp |-> temp, zip0 |-> zip, temp0 |-> temp,
                     pages |-> [kind |-> "unset", filenames |-> <<>>], idx |-> 1, downloaded_files |-> <<>>,
                     fetches |-> 0, requested |-> <<>>, returned |-> "none"]

\* the existence test of the ZIP and the call of get_chapter_pages
ChapterBegin ==
    /\ chapter # <<>>
    /\ chapter.pc = "start"
    /\ IF chapter.zip.state # "absent"
       THEN chapter' = [chapter EXCEPT !.pc = "done", !.returned = "zip_path"]
       ELSE \E pages \in PageLists :
              chapter' = [chapter EXCEPT
                  !.fetches = @ + 1,
                  !.pages = pages,
                  !.pc = IF pages.kind = "pages" THEN "pages" ELSE "done",
                  !.returned = CASE pages.kind = "pages" -> "none"
                                 [] pages.kind = "None" -> "None"
                                 [] OTHER -> "raised"]
    /\ UNCHANGED <<pc, pages_a, pages_b, threshold, dist, dp, fi, fj, i, j, matches, prev,
                   io, batch, download>>

\* one iteration of the loop over the filenames
ChapterPage ==
    /\ chapter # <<>>
    /\ chapter.pc = "pages"
    /\ chapter.idx <= Len(chapter.pages.filenames)
    /\ LET page_file == PageFileName(chapter.idx, chapter.pages.filenames[chapter.idx])
       IN  IF page_file \in chapter.temp
           THEN chapter' = [chapter EXCEPT
                    !.downloaded_files = Append(@, page_file),
                    !.idx = @ + 1]
           ELSE \E downloaded \in DownloadResults :
                  chapter' = [chapter EXCEPT
                      !.requested = Append(@, page_file),
                      !.temp = IF downloaded = "False" THEN @ ELSE @ \cup {page_file},
                      !.downloaded_files = IF downloaded = "True" THEN Append(@, page_file) ELSE @,
                      !.idx = @ + 1]
    /\ UNCHANGED <<pc, pages_a, pages_b, threshold, dist, dp, fi, fj, i, j, matches, prev,
                   io, batch, download>>

\* after the loop: None without a page, the ZIP otherwise
ChapterFinish ==
    /\ chapter # <<>>
    /\ chapter.pc = "pages"
    /\ chapter.idx > Len(chapter.pages.filenames)
    /\ IF chapter.downloaded_files = <<>>
       THEN chapter' = [chapter EXCEPT !.pc = "done", !.returned = "None"]
       ELSE chapter' = [chapter EXCEPT
                !.pc = "done",
                !.zip = [state |-> "created", entries |-> ZipOf(chapter.downloaded_files)],
                !.returned = "zip_path"]
    /\ UNCHANGED <<pc, pages_a, pages_b, threshold, dist, dp, fi, fj, i, j, matches, prev,
                   io, batch, download>>

NextChapter == ChapterBegin \/ ChapterPage \/ ChapterFinish

SpecChapter == InitChapter /\ [][NextChapter]_vars

\* a hex string of HexLen digits with its bits spread out
Scatter(mul, add) == [k \in 1..HexLen |-> (mul * k + add) % 16]

\* fingerprints of two hash sizes: hash_size 8 (16 hex digits) and hash_size
\* 4 (4 hex digits)
MixedHashes ==
    { HexOfWeight(0), Scatter(7, 0), Scatter(5, 3), <<0, 0, 0, 0>>, <<10, 5, 15, 1>> }

MixedSeqs == UNION {[1..len -> MixedHashes] : len \in 0..MaxMixedPages}

\* page lists whose fingerprints need not have one hash size
InitMixed ==
    /\ NoArchives
    /\ \E ha \in MixedSeqs, hb \in MixedSeqs :
          /\ pages_a = PagesOf(ha)
          /\ pages_b = PagesOf(hb)
    /\ threshold = DEFAULT_THRESHOLD
    /\ Idle
    /\ NoTools

SpecMixed == InitMixed /\ [][Next]_vars

(* ------------------------------------------------------------------ *)
(* Properties of the returned alignment                                *)
(* ------------------------------------------------------------------ *)

Returned == pc = "done"

HasA(e) == e.page_a # NonePage

HasB(e) == e.page_b # NonePage

Paired(e) == HasA(e) /\ HasB(e)

Entries == 1..Len(matches)

\* PageInfo.index of the page an entry refers to
IndexA(e) == pages_a[e.page_a].index

IndexB(e) == pages_b[e.page_b].index

\* C1: the returned list is order-preserving: the indices of the A pages that
\* appear are strictly increasing along the list, so are those of the B
\* pages, and two paired entries never cross.
C1_OrderPreserving ==
    Returned =>
        \A p \in Entries, q \in Entries :
            p < q =>
                /\ (HasA(matches[p]) /\ HasA(matches[q])) => IndexA(matches[p]) < IndexA(matches[q])
                /\ (HasB(matches[p]) /\ HasB(matches[q])) => IndexB(matches[p]) < IndexB(matches[q])
                /\ (Paired(matches[p]) /\ Paired(matches[q])) =>
                      (IndexA(matches[p]) < IndexA(matches[q])) = (IndexB(matches[p]) < IndexB(matches[q]))

C1_Witness ==
    /\ Returned
    /\ Cardinality({p \in Entries : Paired(matches[p])}) >= 2
    /\ \E p \in Entries : matches[p].match_type = "insert_a"
    /\ \E p \in Entries : matches[p].match_type = "insert_b"

\* the cost of a list of entries: the distance of every paired entry and the
\* gap penalty of every a_only or b_only entry
RECURSIVE CostFrom(_, _)
CostFrom(ms, k) ==
    IF k > Len(ms) THEN 0
    ELSE (IF Paired(ms[k]) THEN ms[k].distance ELSE GAP_PENALTY) + CostFrom(ms, k + 1)

AlignmentCost(ms) == CostFrom(ms, 1)

\* An order-preserving alignment pairs the pages S of A with the pages T of
\* B, as many on each side, the k-th smallest of S with the k-th smallest of T.
Rank(x, S) == Cardinality({y \in S : y <= x})

Partner(x, S, T) == CHOOSE y \in T : Rank(y, T) = Rank(x, S)

RECURSIVE SumOver(_, _, _)
SumOver(S, T, R) ==
    IF R = {} THEN 0
    ELSE LET x == CHOOSE z \in R : TRUE
         IN  dist[x][Partner(x, S, T)] + SumOver(S, T, R \ {x})

\* the alignments in which every pair has a distance <= threshold
Admissible ==
    {al \in (SUBSET (1..Len(pages_a))) \X (SUBSET (1..Len(pages_b))) :
        /\ Cardinality(al[1]) = Cardinality(al[2])
        /\ \A x \in al[1] : dist[x][Partner(x, al[1], al[2])] <= threshold}

CostOf(al) ==
    SumOver(al[1], al[2], al[1])
        + GAP_PENALTY * (Len(pages_a) + Len(pages_b) - 2 * Cardinality(al[1]))

\* C2: the returned alignment is cost-optimal: its cost is the least cost of
\* an order-preserving alignment whose pairs all have distance <= threshold.
C2_CostOptimal ==
    Returned =>
        /\ \A al \in Admissible : AlignmentCost(matches) <= CostOf(al)
        /\ \E al \in Admissible : AlignmentCost(matches) = CostOf(al)

\* a call where pairing, splitting a bad pair and gaps all compete
C2_Witness ==
    /\ Returned
    /\ Len(pages_a) >= 2
    /\ Len(pages_b) >= 2
    /\ \E p \in Entries : matches[p].match_type = "weak_match"
    /\ \E p \in Entries : matches[p].match_type = "insert_a"
    /\ Cardinality(Admissible) > 4

\* C3: a sequence aligned with itself gives one entry per page, the k-th
\* pairing page k with page k, outcome "match", distance 0.
C3_SelfAlignment ==
    (Returned /\ pages_a = pages_b) =>
        /\ Len(matches) = Len(pages_a)
        /\ \A k \in Entries : matches[k] = PageMatch(k, k, 0, "match")

\* a chapter with two identical pages and a near-identical one
C3_Witness ==
    /\ Returned
    /\ pages_a = pages_b
    /\ Len(pages_a) >= 3
    /\ \E p \in 1..Len(pages_a), q \in 1..Len(pages_a) :
          p # q /\ pages_a[p].phash = pages_a[q].phash
    /\ \E p \in 1..Len(pages_a), q \in 1..Len(pages_a) :
          dist[p][q] > 0 /\ dist[p][q] <= threshold
    /\ Len(matches) = Len(pages_a)

\* C4: with A empty the result is one "insert_b" entry per page of B in B's
\* order, with B empty one "insert_a" entry per page of A in A's order, with
\* both empty the empty list.
C4_EmptySide ==
    Returned =>
        /\ Len(pages_a) = 0 =>
              /\ Len(matches) = Len(pages_b)
              /\ \A k \in Entries :
                    matches[k] = [page_a |-> NonePage, page_b |-> k,
                                  distance |-> NoneDistance, match_type |-> "insert_b"]
        /\ Len(pages_b) = 0 =>
              /\ Len(matches) = Len(pages_a)
              /\ \A k \in Entries :
                    matches[k] = [page_a |-> k, page_b |-> NonePage,
                                  distance |-> NoneDistance, match_type |-> "insert_a"]

C4_Witness ==
    /\ Returned
    /\ Len(pages_a) = 0
    /\ Len(pages_b) >= 2
    /\ Len(matches) = Len(pages_b)

\* C5: B is A with one extra page; when the two are aligned again with a
\* threshold at least as large, the number of a_only plus b_only entries does
\* not grow and the number of "match" entries does not shrink.
C5_ThresholdMonotone ==
    (Returned /\ prev # <<>>) =>
        /\ insert_a_count(matches) + insert_b_count(matches)
              <= prev[1].insert_a + prev[1].insert_b
        /\ matched_count(matches) >= prev[1].matched

C5_Witness ==
    /\ Returned
    /\ prev # <<>>
    /\ prev[1].threshold < threshold
    /\ Len(pages_a) >= 2
    /\ matched_count(matches) = Len(pages_a)
    /\ insert_b_count(matches) = 1

\* C6: every entry with both pages carries the fingerprint distance of its
\* two pages, and that distance is <= threshold; an entry tagged "match" or
\* "weak_match" is such an entry.
C6_NoForcedPair ==
    Returned =>
        \A k \in Entries :
            /\ Paired(matches[k]) =>
                  /\ matches[k].distance =
                        hash_distance(pages_a[matches[k].page_a].phash,
                                      pages_b[matches[k].page_b].phash)
                  /\ matches[k].distance <= threshold
            /\ matches[k].match_type \in {"match", "weak_match"} => Paired(matches[k])

\* a pair right at the threshold is kept, a pair above it is split
C6_Witness ==
    /\ Returned
    /\ \E k \in Entries : Paired(matches[k]) /\ matches[k].distance = threshold
    /\ \E p \in Entries, q \in Entries :
          /\ matches[p].match_type = "insert_a"
          /\ matches[q].match_type = "insert_b"
          /\ dist[matches[p].page_a][matches[q].page_b] > threshold

\* C7: every entry is well-formed: "insert_a" has page_a only, "insert_b"
\* has page_b only, "match" and "weak_match" have both, and the distance is
\* present exactly when both pages are.
C7_WellFormed ==
    Returned =>
        \A k \in Entries :
            LET e == matches[k]
            IN  /\ e.match_type \in {"match", "weak_match", "insert_a", "insert_b"}
                /\ e.match_type = "insert_a" => (HasA(e) /\ ~HasB(e))
                /\ e.match_type = "insert_b" => (HasB(e) /\ ~HasA(e))
                /\ e.match_type \in {"match", "weak_match"} => Paired(e)
                /\ (e.distance # NoneDistance) = Paired(e)
                /\ HasA(e) => e.page_a \in 1..Len(pages_a)
                /\ HasB(e) => e.page_b \in 1..Len(pages_b)

\* one list with all four outcomes
C7_Witness ==
    /\ Returned
    /\ \A ty \in {"match", "weak_match", "insert_a", "insert_b"} :
          \E k \in Entries : matches[k].match_type = ty

\* C8: a paired entry is "match" exactly when its distance d has
\* d <= threshold / 2 (2 * d <= threshold), and "weak_match" exactly when
\* threshold / 2 < d <= threshold.
C8_MatchOrWeak ==
    Returned =>
        \A k \in Entries :
            Paired(matches[k]) =>
                /\ (matches[k].match_type = "match") = (2 * matches[k].distance <= threshold)
                /\ (matches[k].match_type = "weak_match") =
                      (2 * matches[k].distance > threshold /\ matches[k].distance <= threshold)

\* an odd threshold with a distance between its floor half and its half
C8_Witness ==
    /\ Returned
    /\ threshold % 2 = 1
    /\ \E k \in Entries :
          /\ matches[k].match_type = "weak_match"
          /\ matches[k].distance = (threshold + 1) \div 2
    /\ \E k \in Entries : matches[k].match_type = "match"

\* B is A (distance 0 page by page) with one page more at position p, and
\* that page is further than the threshold from every page of A
ExtraAt(p) ==
    /\ Len(pages_b) = Len(pages_a) + 1
    /\ p \in 1..Len(pages_b)
    /\ \A k \in 1..Len(pages_a) :
          /\ dist[k][IF k < p THEN k ELSE k + 1] = 0
          /\ dist[k][p] > threshold

ExpectedExtra(p) ==
    [k \in 1..Len(pages_b) |->
        IF k < p THEN PageMatch(k, k, 0, "match")
        ELSE IF k = p THEN PageMatch(NonePage, p, NoneDistance, "insert_b")
        ELSE PageMatch(k - 1, k, 0, "match")]

\* C9: with such an extra page in B the result is one "match" of distance 0
\* per page of A, in order, and one "insert_b" at the extra page's position.
C9_ExtraPage ==
    Returned =>
        \A p \in 1..Len(pages_b) :
            ExtraAt(p) =>
                /\ matches = ExpectedExtra(p)
                /\ matched_count(matches) = Len(pages_a)
                /\ insert_a_count(matches) = 0
                /\ insert_b_count(matches) = 1

\* the extra page of B comes last, the default threshold
C9_Witness ==
    /\ Returned
    /\ Len(pages_a) = MaxPages - 1
    /\ threshold = DEFAULT_THRESHOLD
    /\ ExtraAt(Len(pages_b))
    /\ Len(matches) = Len(pages_b)
    /\ matches[Len(pages_b)].match_type = "insert_b"

\* A and B have the same length, page k of A and page k of B are further
\* apart than the threshold, every other page of A is at distance 0 from the
\* page of B at its position
BadAt(k) ==
    /\ Len(pages_a) = Len(pages_b)
    /\ k \in 1..Len(pages_a)
    /\ dist[k][k] > threshold
    /\ \A q \in 1..Len(pages_a) : q # k => dist[q][q] = 0

\* C10: with one bad pair at k in sequences of equal length n the result has
\* n + 1 entries: every other position is a "match" of distance 0 and the
\* pair at k is split into one "insert_a" and one "insert_b" entry.
C10_SingleBadPair ==
    Returned =>
        \A k \in 1..Len(pages_a) :
            BadAt(k) =>
                /\ Len(matches) = Len(pages_a) + 1
                /\ \A q \in 1..(k - 1) : matches[q] = PageMatch(q, q, 0, "match")
                /\ \A q \in (k + 1)..Len(pages_a) : matches[q + 1] = PageMatch(q, q, 0, "match")
                /\ {matches[k], matches[k + 1]} =
                      { PageMatch(k, NonePage, NoneDistance, "insert_a"),
                        PageMatch(NonePage, k, NoneDistance, "insert_b") }
                /\ matched_count(matches) = Len(pages_a) - 1

\* the bad pair in the middle of three
C10_Witness ==
    /\ Returned
    /\ Len(pages_a) = 3
    /\ threshold = DEFAULT_THRESHOLD
    /\ BadAt(2)
    /\ Len(matches) = 4
    /\ matched_count(matches) = 2

\* C20: the traceback of align_sequences always terminates: in every
\* iteration one of the four branches of the loop body applies, the fallback
\* break branch is never taken, every iteration of the traceback loop lowers i + j by at
\* least 1 and keeps i and j within 0..|A| and 0..|B| (so there are at most
\* |A| + |B| iterations), and the loop is left only at (i, j) = (0, 0).
C20_TracebackTerminates ==
    /\ [](pc # "reverse")
    /\ []((pc = "trace" /\ (i > 0 \/ j > 0)) =>
             \/ i > 0 /\ j > 0 /\ (came_from_match \/ came_from_bad_match)
             \/ i > 0 /\ dp[i][j] = Plus(dp[i - 1][j], GAP_PENALTY)
             \/ j > 0)
    /\ [](pc = "trace" => (i \in 0..Len(pages_a) /\ j \in 0..Len(pages_b)))
    /\ [][pc = "trace" =>
            /\ pc' \in {"trace", "done"}
            /\ pc' = "trace" => (i' + j' < i + j /\ i' >= 0 /\ j' >= 0)
            /\ pc' = "done" => (i = 0 /\ j = 0)]_vars

\* the longest traceback: both lists full and every pair split or gapped
C20_Witness ==
    /\ Returned
    /\ Len(pages_a) = MaxPages
    /\ Len(pages_b) = MaxPages
    /\ i = 0
    /\ j = 0
    /\ Len(matches) = 2 * MaxPages

Raised == pc = "raised"

\* C18: the distance of two fingerprints of one length is a number between
\* 0 and the bit length, it is 0 for a fingerprint and itself, and it is the
\* same in both directions.
C18_HammingDistance ==
    (pc \in {"fill", "trace", "done"} /\ dist # <<>>) =>
        \A r \in 1..Len(pages_a), c \in 1..Len(pages_b) :
            LET x == pages_a[r].phash
                y == pages_b[c].phash
            IN  /\ dist[r][c] \in 0..(4 * Len(x))
                /\ dist[r][c] = hash_distance(y, x)
                /\ hash_distance(x, x) = 0
                /\ hash_distance(y, y) = 0

\* two different fingerprints with scattered bits were compared, and two equal ones
C18_Witness ==
    /\ pc = "done"
    /\ dist # <<>>
    /\ \E r \in 1..Len(pages_a), c \in 1..Len(pages_b) :
          /\ dist[r][c] > 0
          /\ pages_a[r].phash \notin Palette
          /\ pages_b[c].phash \notin Palette
    /\ \E r \in 1..Len(pages_a), c \in 1..Len(pages_b) : dist[r][c] = 0

\* some page of A and some page of B have fingerprints of different length
LengthsDiffer ==
    \E r \in 1..Len(pages_a), c \in 1..Len(pages_b) :
        Len(pages_a[r].phash) # Len(pages_b[c].phash)

\* C19: when some page of A and some page of B have fingerprints of
\* different length, align_sequences ends in an exception: it returns no
\* list, and no distance matrix or cost table is used.
C19_MismatchSurfaced ==
    (pc # "idle" /\ LengthsDiffer) =>
        /\ Raised
        /\ matches = <<>>
        /\ dist = <<>>
        /\ dp = <<>>

\* the first pages agree in length, a later page does not
C19_Witness ==
    /\ Raised
    /\ Len(pages_a) >= 2
    /\ Len(pages_a[1].phash) = Len(pages_b[1].phash)
    /\ LengthsDiffer

Summarized == result # <<>>

\* the entries of the list ms with one of the types tys, in list order
EntriesOfType(ms, tys) == SelectSeq(ms, LAMBDA e : e.match_type \in tys)

RECURSIVE DistanceTotal(_)
DistanceTotal(ms) == IF ms = <<>> THEN 0 ELSE Head(ms).distance + DistanceTotal(Tail(ms))

\* C11: the summary of align_chapters follows the asymmetry: matched_count is
\* the number of "match" entries only, insert_a_count and insert_b_count are
\* the numbers of "insert_a" and "insert_b" entries, and avg_distance is the
\* sum of the distances of the "match" and "weak_match" entries divided by
\* their number, or 0 when there is none; the page counts are the lengths of
\* the two fingerprint lists.
C11_SummaryCounts ==
    Summarized =>
        LET r == result[1]
            paired == EntriesOfType(matches, {"match", "weak_match"})
        IN  /\ r.matched_count = Len(EntriesOfType(matches, {"match"}))
            /\ r.insert_a_count = Len(EntriesOfType(matches, {"insert_a"}))
            /\ r.insert_b_count = Len(EntriesOfType(matches, {"insert_b"}))
            /\ r.matched_count + Len(EntriesOfType(matches, {"weak_match"}))
                   + r.insert_a_count + r.insert_b_count = Len(matches)
            /\ r.avg_distance.den > 0
            /\ IF paired = <<>>
                  THEN r.avg_distance.num = 0
                  ELSE r.avg_distance.num * Len(paired) = DistanceTotal(paired) * r.avg_distance.den
            /\ r.pages_a = Len(pages_a)
            /\ r.pages_b = Len(pages_b)

\* a summary of a list with a match and a weak match, whose mean distance
\* counts the weak match
C11_Witness ==
    /\ Summarized
    /\ result[1].matched_count = 1
    /\ Len(EntriesOfType(matches, {"weak_match"})) = 1
    /\ result[1].avg_distance = [num |-> 30, den |-> 2]

Remapped == pc \in {"es_written", "finished"}

\* the files of an output archive that are numbered k
Numbered(out, k) == {q \in 1..Len(out) : SubSeq(out[q].name, 1, 3) = Pad3(k)}

\* the bytes the source archive holds under the name of a page
BytesA(e) == ReadFile(zip_a, pages_a[e.page_a].filename)

BytesB(e) == ReadFile(zip_b, pages_b[e.page_b].filename)

\* C12: positional correspondence of the remapper: for every position k of
\* the alignment list, the output of a side holds a page numbered k exactly
\* when the k-th entry has a page of that side, and that page holds the bytes
\* of the entry's source page, whatever the extension of the source page.
C12_PositionalCorrespondence ==
    Remapped =>
        \A k \in Entries :
            /\ HasA(matches[k]) <=> Numbered(out_en, k) # {}
            /\ HasB(matches[k]) <=> Numbered(out_es, k) # {}
            /\ \A q \in Numbered(out_en, k) : out_en[q].data = BytesA(matches[k])
            /\ \A q \in Numbered(out_es, k) : out_es[q].data = BytesB(matches[k])

\* C13: round trip of the remapper: an archive aligned against itself comes
\* back in both outputs, position k holding the bytes of the k-th page of the
\* archive in sorted order, no page missing.
C13_RoundTrip ==
    (Remapped /\ zip_a = zip_b) =>
        LET A == extract_pages(zip_a)
        IN  /\ Len(out_en) = Len(A)
            /\ Len(out_es) = Len(A)
            /\ \A k \in 1..Len(A) :
                  /\ \E q \in Numbered(out_en, k) : out_en[q].data = A[k].data
                  /\ \E q \in Numbered(out_es, k) : out_es[q].data = A[k].data

Finished == pc = "finished"

\* the source name of a side of an entry, None when the entry has no page there
NameA(e) == IF HasA(e) THEN pages_a[e.page_a].filename ELSE NoneName

NameB(e) == IF HasB(e) THEN pages_b[e.page_b].filename ELSE NoneName

\* record k of the manifest tells position, sources and distance of entry k
RecordOfEntry(rec, k) ==
    /\ rec.index = k
    /\ rec.en = NameA(matches[k])
    /\ rec.es = NameB(matches[k])
    /\ rec.distance = matches[k].distance

\* the type the manifest writes for an outcome of the alignment
TypeOfOutcome(ty) ==
    CASE ty \in {"match", "weak_match"} -> "matched"
      [] ty = "insert_a" -> "en_only"
      [] ty = "insert_b" -> "es_only"

\* C14 as stated: one record per position, with sources and distance of the
\* entry, and a type from which the outcome of the entry can be told: records
\* of one type never stand for entries of two different outcomes.
C14_OutcomeRecoverable ==
    Finished =>
        LET recs == manifest[1].pages
        IN  /\ Len(recs) = Len(matches)
            /\ \A k \in Entries : RecordOfEntry(recs[k], k)
            /\ \A k \in Entries, l \in Entries :
                  recs[k].type = recs[l].type => matches[k].match_type = matches[l].match_type

\* C14: the manifest has one record per position k, with the source name of
\* each side of the k-th entry (None for an absent side), the distance of the
\* entry (None exactly when the entry has none), and a type that is "matched"
\* for a match and for a weak match alike, "en_only" for insert_a and
\* "es_only" for insert_b; the counts of the manifest count these types.
C14_ManifestRecords ==
    Finished =>
        LET recs == manifest[1].pages
        IN  /\ Len(recs) = Len(matches)
            /\ manifest[1].total_pages = Len(matches)
            /\ \A k \in Entries :
                  /\ RecordOfEntry(recs[k], k)
                  /\ recs[k].type = TypeOfOutcome(matches[k].match_type)
                  /\ (recs[k].distance = NoneDistance) <=> ~Paired(matches[k])
            /\ manifest[1].matched = Len(EntriesOfType(matches, {"match", "weak_match"}))
            /\ manifest[1].en_only = Len(EntriesOfType(matches, {"insert_a"}))
            /\ manifest[1].es_only = Len(EntriesOfType(matches, {"insert_b"}))

\* a manifest of a match and a weak match, both written as "matched"
C14_Witness ==
    /\ Finished
    /\ Len(EntriesOfType(matches, {"match"})) = 1
    /\ Len(EntriesOfType(matches, {"weak_match"})) = 1
    /\ manifest[1].matched = 2
    /\ manifest[1].pages[1].en # manifest[1].pages[1].es

\* the extension of a name, as written or in lower case
ExtensionOf(name, lowered) == IF lowered THEN Lower(Suffix(name)) ELSE Suffix(name)

\* every file of an output archive is named after the source of some
\* position: the position in three digits, then the extension of the source
NamedAfterSource(lowered) ==
    /\ \A q \in 1..Len(out_en) :
          \E k \in Entries :
              /\ HasA(matches[k])
              /\ out_en[q].name = Pad3(k) \o ExtensionOf(NameA(matches[k]), lowered)
    /\ \A q \in 1..Len(out_es) :
          \E k \in Entries :
              /\ HasB(matches[k])
              /\ out_es[q].name = Pad3(k) \o ExtensionOf(NameB(matches[k]), lowered)

\* no two files of one output archive have the same name
NamesUnique(out) == \A p \in 1..Len(out), q \in 1..Len(out) : p # q => out[p].name # out[q].name

\* C15 as stated: every file written is named by its position, zero-padded,
\* followed by the extension of its source file in the same characters as in
\* the source name, and the names of one output archive are all different.
C15_ExtensionUnchanged ==
    Remapped => (NamedAfterSource(FALSE) /\ NamesUnique(out_en) /\ NamesUnique(out_es))

\* C15: every file written is named by its position, zero-padded to three
\* digits, followed by the extension of its source file in lower case, and
\* the names of one output archive are all different.
C15_LowercaseExtension ==
    Remapped => (NamedAfterSource(TRUE) /\ NamesUnique(out_en) /\ NamesUnique(out_es))

\* two pages written to the EN archive, the second from "2.PNG" as "002.png"
C15_Witness ==
    /\ Remapped
    /\ Len(out_en) = 2
    /\ Len(matches) >= 2
    /\ NameA(matches[2]) = <<50, 46, 80, 78, 71>>
    /\ out_en[2].name = <<48, 48, 50, 46, 112, 110, 103>>
    /\ Len(out_es) >= 1

\* analyze_chapter has just returned for both chapters
Analyzed == pc = "idle"

\* align_chapters has just returned
Aligned == pc = "aligned"

\* the page files of an archive: the names with an image extension
PageFiles(zip) == {k \in 1..Len(zip) : Lower(Suffix(zip[k].name)) \in image_extensions}

\* the place (from 0) of file k among the page files of its archive by name
CanonicalIndex(zip, k) == Cardinality({q \in PageFiles(zip) : StrLess(zip[q].name, zip[k].name)})

Readable(zip) == {k \in PageFiles(zip) : zip[k].data # CorruptImage}

Unreadable(zip) == {k \in PageFiles(zip) : zip[k].data = CorruptImage}

\* the names of the pages the entries of the list refer to
NamesInEntriesA == {NameA(matches[k]) : k \in {q \in Entries : HasA(matches[q])}}

\* C16: a page whose fingerprinting fails is tolerated: no step of the run
\* ends in an exception, analyze_chapter returns a list, every other page of
\* the chapter is fingerprinted and is in exactly one entry of the list
\* align_sequences returns, the failed page is in no entry of any type, and
\* the page count of the side in the summary does not count it.
C16_FailureTolerated ==
    /\ pc # "raised"
    /\ Analyzed =>
          /\ Len(pages_a) = Cardinality(Readable(zip_a))
          /\ \A k \in Readable(zip_a) :
                \E p \in 1..Len(pages_a) :
                    /\ pages_a[p].filename = zip_a[k].name
                    /\ pages_a[p].phash = compute_phash(zip_a[k].data)
          /\ \A k \in Unreadable(zip_a) :
                \A p \in 1..Len(pages_a) : pages_a[p].filename # zip_a[k].name
    /\ Returned =>
          /\ \A k \in Readable(zip_a) :
                Cardinality({q \in Entries : NameA(matches[q]) = zip_a[k].name}) = 1
          /\ \A k \in Unreadable(zip_a) : zip_a[k].name \notin NamesInEntriesA
    /\ Aligned => result[1].pages_a = Cardinality(Readable(zip_a))

\* a chapter of a readable and an unreadable page, aligned: the readable page
\* is paired, the summary counts one page
C16_Witness ==
    /\ Aligned
    /\ Cardinality(Unreadable(zip_a)) = 1
    /\ Cardinality(Readable(zip_a)) = 1
    /\ Len(matches) = 2
    /\ result[1].pages_a = 1
    /\ result[1].matched_count = 1

\* C17: the fingerprint list of a chapter is in strictly increasing index
\* order and in the order of the names of the pages, whatever the order of
\* the files in the archive, also when pages were dropped: the index of a
\* page is its place among all the pages of the chapter sorted by name.
C17_IndexOrder ==
    Analyzed =>
        /\ \A p \in 1..Len(pages_a), q \in 1..Len(pages_a) :
              p < q => /\ pages_a[p].index < pages_a[q].index
                       /\ StrLess(pages_a[p].filename, pages_a[q].filename)
        /\ \A p \in 1..Len(pages_a) :
              \E k \in PageFiles(zip_a) :
                  /\ zip_a[k].name = pages_a[p].filename
                  /\ pages_a[p].index = CanonicalIndex(zip_a, k)
        /\ \A p \in 1..Len(pages_b), q \in 1..Len(pages_b) :
              p < q => /\ pages_b[p].index < pages_b[q].index
                       /\ StrLess(pages_b[p].filename, pages_b[q].filename)

\* an archive whose files are not in name order, both pages fingerprinted
C17_Witness ==
    /\ Analyzed
    /\ ~InNameOrder(zip_a)
    /\ Len(pages_a) = 2
    /\ pages_a[1].index = 0
    /\ pages_a[2].index = 1

\* the entries of the list that refer to page p of A, to page p of B
EntriesOfA(p) == {k \in Entries : matches[k].page_a = p}

EntriesOfB(p) == {k \in Entries : matches[k].page_b = p}

\* C21: the alignment is global: every page of A given to align_sequences is
\* in exactly one entry of the returned list and so is every page of B; the
\* traceback drops no page and repeats none.
C21_GlobalAlignment ==
    Returned =>
        /\ \A p \in 1..Len(pages_a) : Cardinality(EntriesOfA(p)) = 1
        /\ \A p \in 1..Len(pages_b) : Cardinality(EntriesOfB(p)) = 1

\* a list made by the traceback with a paired entry, a page of A alone and a
\* page of B alone
C21_Witness ==
    /\ Returned
    /\ dp # <<>>
    /\ Len(pages_a) = MaxPages
    /\ \E k \in Entries : Paired(matches[k])
    /\ \E k \in Entries : matches[k].match_type = "insert_a"
    /\ \E k \in Entries : matches[k].match_type = "insert_b"

\* which steps into cell (r, c) of the filled table attain its value
DiagonalMatchAttains(r, c) ==
    dist[r][c] <= threshold /\ dp[r][c] = dp[r - 1][c - 1] + dist[r][c]

DiagonalBadAttains(r, c) ==
    dist[r][c] > threshold /\ dp[r][c] = dp[r - 1][c - 1] + 2 * (threshold + 5)

VerticalAttains(r, c) == dp[r][c] = dp[r - 1][c] + threshold + 5

HorizontalAttains(r, c) == dp[r][c] = dp[r][c - 1] + threshold + 5

\* C22: the tie-break of the traceback: at a cell (i, j) with i, j >= 1 the
\* branches are tried in the order diagonal-match, diagonal-bad-match,
\* vertical, horizontal. A pair within the threshold whose diagonal attains
\* dp[i][j] is emitted as a paired entry even if a gap step attains it too;
\* else a bad pair whose diagonal attains it is split; else a vertical step
\* that attains it is taken even if the horizontal one does too; the
\* horizontal step comes last.
C22_TieBreak ==
    [][(pc = "trace" /\ i > 0 /\ j > 0) =>
          /\ pc' = "trace"
          /\ IF DiagonalMatchAttains(i, j)
                THEN /\ Len(matches') = Len(matches) + 1
                     /\ Paired(matches'[Len(matches')])
                     /\ matches'[Len(matches')].page_a = i
                     /\ matches'[Len(matches')].page_b = j
                     /\ matches'[Len(matches')].distance = dist[i][j]
                     /\ i' = i - 1 /\ j' = j - 1
             ELSE IF DiagonalBadAttains(i, j)
                THEN /\ Len(matches') = Len(matches) + 2
                     /\ \A k \in {Len(matches) + 1, Len(matches) + 2} : ~Paired(matches'[k])
                     /\ i' = i - 1 /\ j' = j - 1
             ELSE IF VerticalAttains(i, j)
                THEN /\ matches' = Append(matches, [page_a |-> i, page_b |-> NonePage,
                                                    distance |-> NoneDistance,
                                                    match_type |-> "insert_a"])
                     /\ i' = i - 1 /\ j' = j
             ELSE    /\ HorizontalAttains(i, j)
                     /\ matches' = Append(matches, [page_a |-> NonePage, page_b |-> j,
                                                    distance |-> NoneDistance,
                                                    match_type |-> "insert_b"])
                     /\ i' = i /\ j' = j - 1]_vars

\* the number of pages of B in the entries before entry k
PagesOfBBefore(k) == Cardinality({q \in 1..(k - 1) : HasB(matches[q])})

\* a returned list with a paired entry at a cell whose value a gap step
\* attains too, and a page of A alone taken by a vertical step at a cell
\* where the horizontal step attains the value too and no diagonal does
C22_Witness ==
    /\ Returned
    /\ dp # <<>>
    /\ \E k \in Entries :
          /\ Paired(matches[k])
          /\ \/ VerticalAttains(matches[k].page_a, matches[k].page_b)
             \/ HorizontalAttains(matches[k].page_a, matches[k].page_b)
    /\ \E k \in Entries :
          LET r == matches[k].page_a
              c == PagesOfBBefore(k)
          IN  /\ matches[k].match_type = "insert_a"
              /\ c >= 1
              /\ ~DiagonalMatchAttains(r, c)
              /\ ~DiagonalBadAttains(r, c)
              /\ VerticalAttains(r, c)
              /\ HorizontalAttains(r, c)

\* the fill loops are over
Filled == pc \in {"trace", "done"} /\ dp # <<>>

\* the smallest of three numbers
Min3(x, y, z) ==
    IF x <= y /\ x <= z THEN x ELSE IF y <= z THEN y ELSE z

\* the cost of the diagonal step into cell (r, c)
SubstitutionOption(r, c) ==
    IF dist[r][c] <= threshold THEN dist[r][c] ELSE 2 * (threshold + 5)

\* C23: after the fill the table satisfies the recurrence with gap penalty
\* threshold + 5: dp[0][0] = 0, dp[i][0] = i * gap, dp[0][j] = j * gap, and
\* dp[i][j] = min(dp[i-1][j-1] + s, dp[i-1][j] + gap, dp[i][j-1] + gap) with
\* s = d if d <= threshold else 2 * gap; no cell keeps the placeholder; and
\* during the fill the three cells a cell depends on are computed before it.
C23_Recurrence ==
    /\ Filled =>
          LET gap == threshold + 5
          IN  /\ DOMAIN dp = 0..Len(pages_a)
              /\ \A r \in 0..Len(pages_a) :
                    /\ DOMAIN dp[r] = 0..Len(pages_b)
                    /\ dp[r][0] = r * gap
                    /\ \A c \in 0..Len(pages_b) :
                          /\ dp[r][c] # INF
                          /\ dp[r][c] >= 0
                          /\ r = 0 => dp[r][c] = c * gap
                          /\ (r >= 1 /\ c >= 1) =>
                                dp[r][c] = Min3(dp[r - 1][c - 1] + SubstitutionOption(r, c),
                                                dp[r - 1][c] + gap,
                                                dp[r][c - 1] + gap)
    /\ pc = "fill" =>
          /\ dp[fi - 1][fj - 1] # INF
          /\ dp[fi - 1][fj] # INF
          /\ dp[fi][fj - 1] # INF
          /\ dp[fi][fj] = INF

\* a filled table of the largest size with a cell taken from the match
\* diagonal, one from the bad-match diagonal and one from a gap step alone
C23_Witness ==
    /\ Filled
    /\ Len(pages_a) = MaxPages
    /\ Len(pages_b) = MaxPages
    /\ \E r \in 1..MaxPages, c \in 1..MaxPages : DiagonalMatchAttains(r, c) /\ dist[r][c] > 0
    /\ \E r \in 1..MaxPages, c \in 1..MaxPages : DiagonalBadAttains(r, c)
    /\ \E r \in 1..MaxPages, c \in 1..MaxPages :
          /\ ~DiagonalMatchAttains(r, c)
          /\ ~DiagonalBadAttains(r, c)
          /\ ~VerticalAttains(r, c)
          /\ HorizontalAttains(r, c)

Prepared == aligned_pages # <<>> \/ pc \in {"prepared", "en_written", "es_written", "finished"}

\* C24: the output positions are dense and follow the alignment list:
\* align_and_prepare gives one AlignedPage per entry, in the order of the
\* list, the k-th with index k and the pages of the k-th entry, so the
\* indices are exactly 1..N for N entries, and total_pages of the manifest
\* is N.
C24_DensePositions ==
    /\ Prepared =>
          /\ Len(aligned_pages) = Len(matches)
          /\ \A k \in 1..Len(aligned_pages) :
                /\ aligned_pages[k].index = k
                /\ aligned_pages[k].en_source = NameA(matches[k])
                /\ aligned_pages[k].es_source = NameB(matches[k])
          /\ {aligned_pages[k].index : k \in 1..Len(aligned_pages)} = 1..Len(matches)
    /\ Finished => manifest[1].total_pages = Len(matches)

\* a finished run whose list has a paired entry, a page of A alone and a
\* page of B alone: three positions for two pages a side
C24_Witness ==
    /\ Finished
    /\ Len(pages_a) = 2
    /\ Len(pages_b) = 2
    /\ Len(matches) = 3
    /\ \E k \in Entries : Paired(matches[k])
    /\ aligned_pages[3].index = 3
    /\ manifest[1].total_pages = 3

\* the number of entries of the list with the given type
NumberOf(ty) == Cardinality({k \in Entries : matches[k].match_type = ty})

Max2(x, y) == IF x >= y THEN x ELSE y

\* C25: count conservation in the AlignmentResult: pages_a is the number of
\* entries with a page of A, which is the "match", "weak_match" and
\* "insert_a" entries together, and likewise pages_b; the number of entries
\* is pages_a + pages_b minus the paired entries, so between
\* max(pages_a, pages_b) and pages_a + pages_b; and pages_a = matched_count +
\* insert_a_count exactly when no entry is a "weak_match".
C25_CountConservation ==
    Aligned =>
        LET r == result[1]
            paired == NumberOf("match") + NumberOf("weak_match")
        IN  /\ r.pages_a = Cardinality({k \in Entries : HasA(matches[k])})
            /\ r.pages_a = paired + NumberOf("insert_a")
            /\ r.pages_b = Cardinality({k \in Entries : HasB(matches[k])})
            /\ r.pages_b = paired + NumberOf("insert_b")
            /\ Len(matches) = r.pages_a + r.pages_b - paired
            /\ Len(matches) >= Max2(r.pages_a, r.pages_b)
            /\ Len(matches) <= r.pages_a + r.pages_b
            /\ (r.pages_a = r.matched_count + r.insert_a_count) <=> (NumberOf("weak_match") = 0)
            /\ (r.pages_b = r.matched_count + r.insert_b_count) <=> (NumberOf("weak_match") = 0)

\* a result with a weak match and a page of A alone: two pages of A, no
\* match counted and one insertion counted
C25_Witness ==
    /\ Aligned
    /\ NumberOf("weak_match") = 1
    /\ result[1].pages_a = 2
    /\ result[1].matched_count = 0
    /\ result[1].insert_a_count = 1

\* C26: the counts of the manifest partition the output positions:
\* matched + en_only + es_only = total_pages; matched counts the "match" and
\* the "weak_match" entries together, so it is matched_count of the
\* AlignmentResult plus the number of weak matches and differs from
\* matched_count exactly when a weak match exists; en_only and es_only are
\* insert_a_count and insert_b_count.
C26_ManifestCounts ==
    Finished =>
        LET m == manifest[1]
            r == result[1]
        IN  /\ m.matched + m.en_only + m.es_only = m.total_pages
            /\ m.matched = r.matched_count + NumberOf("weak_match")
            /\ (m.matched # r.matched_count) <=> (NumberOf("weak_match") > 0)
            /\ m.en_only = r.insert_a_count
            /\ m.es_only = r.insert_b_count
            /\ m.en_only = NumberOf("insert_a")
            /\ m.es_only = NumberOf("insert_b")

\* a manifest of a match and a weak match: matched is 2 where matched_count
\* of the result is 1
C26_Witness ==
    /\ Finished
    /\ manifest[1].matched = 2
    /\ result[1].matched_count = 1
    /\ manifest[1].total_pages = 2

\* C27: a pair above the threshold split by the bad-match branch gives two
\* adjacent entries of the returned list, the page of B alone immediately
\* before the page of A alone: the branch appends the entry of A[i-1] and
\* then the entry of B[j-1] at the end of the list, later iterations only
\* append behind them, and the list is reversed as a whole before the return.
C27_BadMatchOrder ==
    /\ [][(pc = "trace" /\ i > 0 /\ j > 0 /\ DiagonalBadAttains(i, j)) =>
              /\ Len(matches') = Len(matches) + 2
              /\ SubSeq(matches', 1, Len(matches)) = matches
              /\ matches'[Len(matches) + 1] =
                     [page_a |-> i, page_b |-> NonePage, distance |-> NoneDistance,
                      match_type |-> "insert_a"]
              /\ matches'[Len(matches) + 2] =
                     [page_a |-> NonePage, page_b |-> j, distance |-> NoneDistance,
                      match_type |-> "insert_b"]]_vars
    /\ [][(pc = "trace" /\ pc' = "trace") =>
              /\ Len(matches') > Len(matches)
              /\ SubSeq(matches', 1, Len(matches)) = matches]_vars
    /\ [][(pc = "trace" /\ pc' = "done") =>
              /\ Len(matches') = Len(matches)
              /\ \A k \in 1..Len(matches) : matches'[k] = matches[Len(matches) + 1 - k]]_vars

\* a returned list in which the pair of cell (r, c), split by the bad-match
\* branch, stands as the page of B alone right before the page of A alone,
\* between other entries
C27_Witness ==
    /\ Returned
    /\ dp # <<>>
    /\ \E k \in 2..(Len(matches) - 2) :
          LET r == matches[k + 1].page_a
              c == matches[k].page_b
          IN  /\ matches[k].match_type = "insert_b"
              /\ matches[k + 1].match_type = "insert_a"
              /\ DiagonalBadAttains(r, c)
              /\ Paired(matches[k - 1])
              /\ Paired(matches[k + 2])

\* align_all_chapters returned a summary
BatchReturned == batch # <<>> /\ batch.pc = "returned" /\ batch.summary # <<>>

IsErrorRecord(rec) == "error" \in DOMAIN rec

\* the places of the records of summary["chapters"] that are error records
ErrorRecords(sm) == {k \in 1..Len(sm.chapters) : IsErrorRecord(sm.chapters[k])}

\* C28: the accounting of align_all_chapters: every chapter pair found has
\* exactly one record in summary["chapters"], in processing order; a chapter
\* whose alignment raised has an error record and the chapters after it are
\* processed all the same; perfect_matches + has_insertions + the number of
\* error records = total_chapters; and a chapter is counted as perfect only
\* if it has neither an insert_a nor an insert_b entry.
C28_BatchAccounting ==
    BatchReturned =>
        LET sm == batch.summary[1]
            n == Len(batch.pairs)
        IN  /\ sm.total_chapters = n
            /\ Len(sm.chapters) = n
            /\ \A k \in 1..Len(sm.chapters) : sm.chapters[k].chapter = k
            /\ \A k \in 1..n :
                  batch.pairs[k].align.raises =>
                      \E q \in ErrorRecords(sm) : sm.chapters[q].chapter = k
            /\ sm.perfect_matches + sm.has_insertions + Cardinality(ErrorRecords(sm)) = n
            /\ sm.perfect_matches =
                   Cardinality({k \in 1..n :
                       /\ ~batch.pairs[k].align.raises
                       /\ batch.pairs[k].align.insert_a_count = 0
                       /\ batch.pairs[k].align.insert_b_count = 0})

\* the requests download_file has issued
Requests == Len(download.answers)

\* the attempts whose request was answered with status 200 and whose body
\* was written to dest
Successes == {k \in 1..Len(download.answers) : download.answers[k] = "200"}

\* C29: the retry bound of download_file: a call issues at most retries
\* requests, one per attempt whatever the answers are; it returns True only
\* if an attempt got status 200 and its body was written to dest, and that
\* attempt is the last request; it returns False only without such a
\* success, and once all attempts are used up without one it returns False.
C29_RetryBound ==
    /\ [](download # <<>> =>
            /\ Requests <= download.retries
            /\ Requests = download.attempt
            /\ download.returned = "True" =>
                  /\ Successes = {Requests}
                  /\ download.dest = "body"
            /\ download.returned = "False" => Successes = {}
            /\ download.returned = "none" => Successes = {}
            /\ (Requests = download.retries /\ Successes = {}
                    /\ download.answers # <<>> /\ download.answers[Requests] = "404")
                  => download.returned = "False")
    /\ [][download # <<>> =>
            /\ download.returned # "none" => download' = download
            /\ (download.returned = "none" /\ Requests = download.retries) =>
                  (download'.returned = "False" /\ Len(download'.answers) = Requests)]_vars

\* a call with the default retries that was answered with every kind of
\* failure and then with status 200 on its last attempt
C29_Witness ==
    /\ download # <<>>
    /\ download.retries = MAX_RETRIES
    /\ download.returned = "True"
    /\ Requests = MAX_RETRIES
    /\ {download.answers[k] : k \in 1..(MAX_RETRIES - 1)} = {"429", "503", "404", "timeout"}

\* the call of download_chapter_to_zip has ended
ChapterDone == chapter # <<>> /\ chapter.pc = "done"

\* the page files the loop has passed, and the name of the page at a position
PassedPages == 1..(chapter.idx - 1)
PageFileAt(k) == PageFileName(k, chapter.pages.filenames[k])

\* the entries of a sequence, as a set
Members(seq) == {seq[k] : k \in 1..Len(seq)}

\* the part of the claim about a ZIP that exists, about reuse, skipping and
\* the creation of the ZIP
ResumableParts ==
    /\ chapter.zip0.state # "absent" =>
          (ChapterDone => chapter.returned = "zip_path")
          /\ chapter.fetches = 0
          /\ chapter.requested = <<>>
          /\ chapter.zip = chapter.zip0
    /\ chapter.pages.kind = "pages" =>
          \A k \in PassedPages :
              /\ PageFileAt(k) \in chapter.temp0 =>
                    /\ PageFileAt(k) \notin Members(chapter.requested)
                    /\ PageFileAt(k) \in Members(chapter.downloaded_files)
              /\ PageFileAt(k) \in Members(chapter.downloaded_files)
                    \/ \A q \in 1..Len(chapter.downloaded_files) :
                          SubSeq(chapter.downloaded_files[q], 1, 3) # Pad3(k)
    /\ (chapter.zip0.state = "absent" /\ chapter.zip.state # "absent") =>
          /\ chapter.downloaded_files # <<>>
          /\ Len(chapter.zip.entries) = Len(chapter.downloaded_files)
          /\ \A q \in 1..Len(chapter.zip.entries) :
                chapter.zip.entries[q].name = chapter.downloaded_files[q]

\* C30: download_chapter_to_zip is resumable and never overwrites: a ZIP
\* that exists is returned without a request and unchanged; a page file in
\* the temp directory is reused without a download; a page whose download
\* fails is skipped and the others keep their numbers; a ZIP is created only
\* with at least one page; None is returned and no ZIP created when the page
\* list cannot be fetched or no page was obtained.
C30_Resumable ==
    chapter # <<>> =>
        /\ ResumableParts
        /\ (ChapterDone /\ chapter.zip0.state = "absent"
                /\ (chapter.pages.kind # "pages" \/ chapter.downloaded_files = <<>>)) =>
              /\ chapter.returned = "None"
              /\ chapter.zip.state = "absent"

====
